---------------------------- MODULE Spec2Model ----------------------------
(***************************************************************************)
(* afkrip: an anti-idle utility.  src/src/lib.rs holds the virtual mouse   *)
(* (input::Mouse), the command line (cli) and the controller start();      *)
(* src/src/main.rs holds the executable's entry point main().              *)
(*                                                                         *)
(* Three specifications share the state below:                             *)
(*   Spec      - one run of start()            (lib.rs 192-215)            *)
(*   SpecMain  - one run of main()             (main.rs 15-32)             *)
(*   SpecMouse - a client of the public Mouse API (lib.rs 39-112)          *)
(***************************************************************************)
EXTENDS Integers, Sequences, FiniteSets, TLC

(***************************************************************************)
(* u64 values.  TLC's integers are 32 bits wide, so a u64 is kept as four  *)
(* 16-bit limbs, least significant first; the arithmetic the code does on  *)
(* them (parse, * 60, * 1000, >) is carried out limb by limb, and a value  *)
(* wider than four limbs is an overflow.                                   *)
(***************************************************************************)
Base == 2^16

U64Limbs == 64 \div 16

U64Zero == [i \in 1..U64Limbs |-> 0]

\* A small natural number (below 2^31) as a u64.
RECURSIVE LimbsOf(_, _)
LimbsOf(n, k) == IF k = 0 THEN <<>> ELSE <<n % Base>> \o LimbsOf(n \div Base, k - 1)

U64(n) == LimbsOf(n, U64Limbs)

\* The carry into limb i of x * k (k < 2^15).
RECURSIVE MulCarry(_, _, _)
MulCarry(x, k, i) ==
    IF i = 1 THEN 0 ELSE (x[i - 1] * k + MulCarry(x, k, i - 1)) \div Base

\* x * k reduced modulo 2^(16 * Len(x)): the product of a build without overflow checks.
WrappingMul(x, k) == [i \in 1..Len(x) |-> (x[i] * k + MulCarry(x, k, i)) % Base]

MulOverflows(x, k) == MulCarry(x, k, Len(x) + 1) > 0

\* The carry into limb i of x + d (d < 2^15).
RECURSIVE AddCarry(_, _, _)
AddCarry(x, d, i) ==
    IF i = 1 THEN d ELSE (x[i - 1] + AddCarry(x, d, i - 1)) \div Base

WrappingAdd(x, d) == [i \in 1..Len(x) |-> (x[i] + AddCarry(x, d, i)) % Base]

AddOverflows(x, d) == AddCarry(x, d, Len(x) + 1) > 0

\* a > b on limbs, decided at the most significant limb that differs.
RECURSIVE GtFrom(_, _, _)
GtFrom(a, b, i) ==
    IF i = 0 THEN FALSE
    ELSE IF a[i] # b[i] THEN a[i] > b[i]
    ELSE GtFrom(a, b, i - 1)

Gt(a, b) == GtFrom(a, b, Len(a))

(***************************************************************************)
(* Command-line values are character sequences; str::parse turns them into *)
(* numbers digit by digit, with checked arithmetic.                        *)
(***************************************************************************)
DigitChars == <<"0", "1", "2", "3", "4", "5", "6", "7", "8", "9">>

IsDigit(c) == \E i \in 1..10 : DigitChars[i] = c

DigitVal(c) == (CHOOSE i \in 1..10 : DigitChars[i] = c) - 1

ParseErr == [ok |-> FALSE]

\* The digits s[i..] folded into acc: acc * 10 + digit, failing on a
\* character that is no digit and on overflow of the u64.
RECURSIVE ParseU64From(_, _, _)
ParseU64From(s, i, acc) ==
    IF i > Len(s) THEN [ok |-> TRUE, val |-> acc]
    ELSE IF ~IsDigit(s[i]) THEN ParseErr
    ELSE IF MulOverflows(acc, 10) THEN ParseErr
    ELSE IF AddOverflows(WrappingMul(acc, 10), DigitVal(s[i])) THEN ParseErr
    ELSE ParseU64From(s, i + 1, WrappingAdd(WrappingMul(acc, 10), DigitVal(s[i])))

\* value.parse::<u64>(): an optional "+", then at least one digit.
ParseU64(s) ==
    LET body == IF Len(s) > 0 /\ s[1] = "+" THEN Tail(s) ELSE s
    IN  IF Len(body) = 0 THEN ParseErr ELSE ParseU64From(body, 1, U64Zero)

I32_MAX == 2147483647

\* The digits s[i..] folded into acc for a non-negative i32.
RECURSIVE ParseI32Pos(_, _, _)
ParseI32Pos(s, i, acc) ==
    IF i > Len(s) THEN [ok |-> TRUE, val |-> acc]
    ELSE IF ~IsDigit(s[i]) THEN ParseErr
    ELSE IF acc > (I32_MAX - DigitVal(s[i])) \div 10 THEN ParseErr
    ELSE ParseI32Pos(s, i + 1, acc * 10 + DigitVal(s[i]))

\* The digits s[i..] folded into acc for a negative i32 (acc * 10 - digit).
RECURSIVE ParseI32Neg(_, _, _)
ParseI32Neg(s, i, acc) ==
    IF i > Len(s) THEN [ok |-> TRUE, val |-> acc]
    ELSE IF ~IsDigit(s[i]) THEN ParseErr
    ELSE IF -acc > (I32_MAX + 1 - DigitVal(s[i])) \div 10 THEN ParseErr
    ELSE ParseI32Neg(s, i + 1, acc * 10 - DigitVal(s[i]))

\* value.parse::<i32>(): an optional sign, then at least one digit.
ParseI32(s) ==
    IF Len(s) = 0 THEN ParseErr
    ELSE IF s[1] = "-" THEN
        (IF Len(s) = 1 THEN ParseErr ELSE ParseI32Neg(Tail(s), 1, 0))
    ELSE IF s[1] = "+" THEN
        (IF Len(s) = 1 THEN ParseErr ELSE ParseI32Pos(Tail(s), 1, 0))
    ELSE ParseI32Pos(s, 1, 0)


(***************************************************************************)
(* input::errors::MouseError and its message (lib.rs 12-32).               *)
(***************************************************************************)
MouseError ==
    {"BuilderInitError", "KeysAssignError", "AxesAssignError",
     "CreateDeviceError", "ButtonEventEmitError", "AxisEventEmitError"}

message(err) ==
    CASE err = "BuilderInitError"     -> "Cannot initialize device builder"
      [] err = "KeysAssignError"      -> "Cannot assign keys to virtual mouse"
      [] err = "AxesAssignError"      -> "Cannot assign axes to virtual mouse"
      [] err = "CreateDeviceError"    -> "Cannot create virtual mouse"
      [] err = "AxisEventEmitError"   -> "Cannot move virtual mouse"
      [] err = "ButtonEventEmitError" -> "Cannot click virtual mouse"

Ok(v) == [ok |-> TRUE, val |-> v]

Err(e) == [ok |-> FALSE, err |-> e]

(***************************************************************************)
(* input::Mouse (lib.rs 35-112).  The OS side of the virtual device is the *)
(* sequence of submissions made to it; each submission is one emit() call, *)
(* with the events it carries and whether the OS accepted it.              *)
(***************************************************************************)
\* The evdev key type: the two buttons the mouse declares and one it does not.
Key == {"BTN_LEFT", "BTN_RIGHT", "BTN_MIDDLE"}

KeyCode(key) ==
    CASE key = "BTN_LEFT"   -> 272
      [] key = "BTN_RIGHT"  -> 273
      [] key = "BTN_MIDDLE" -> 274

AxisCode(axis) ==
    CASE axis = "REL_X" -> 0
      [] axis = "REL_Y" -> 1

NoMouse == [name |-> "", keys |-> {}, axes |-> {}, input_id |-> <<>>]

\* What the OS answers to the four fallible steps of the builder chain.
SetupOutcomes == [builder : BOOLEAN, keys : BOOLEAN, axes : BOOLEAN, build : BOOLEAN]

\* A mutation of Mouse::new: a failed key assignment is reported as the axes' error.
MouseNew_KeysAsAxes(os) ==
    IF ~os.builder THEN Err("BuilderInitError")
    ELSE IF ~os.keys THEN Err("AxesAssignError")
    ELSE IF ~os.axes THEN Err("AxesAssignError")
    ELSE IF ~os.build THEN Err("CreateDeviceError")
    ELSE Ok([name |-> "KPRS mouse device",
             keys |-> {"BTN_LEFT", "BTN_RIGHT"},
             axes |-> {"REL_X", "REL_Y"},
             input_id |-> <<"BUS_USB", 1, 1, 1>>])

\* Mouse::new: the builder chain, each step's failure mapped to its own error by `?`.
MouseNew(os) ==
    IF ~os.builder THEN Err("BuilderInitError")
    ELSE IF ~os.keys THEN Err("KeysAssignError")
    ELSE IF ~os.axes THEN Err("AxesAssignError")
    ELSE IF ~os.build THEN Err("CreateDeviceError")
    ELSE Ok([name |-> "KPRS mouse device",
             keys |-> {"BTN_LEFT", "BTN_RIGHT"},
             axes |-> {"REL_X", "REL_Y"},
             input_id |-> <<"BUS_USB", 1, 1, 1>>])

move_event(axis, value) == [type |-> "RELATIVE", code |-> AxisCode(axis), value |-> value]

key_event(key, value) == [type |-> "KEY", code |-> KeyCode(key), value |-> value]

\* device.emit(events): one submission, accepted or rejected by the OS.
Emit(log, events, accepted) == Append(log, [events |-> events, accepted |-> accepted])

key_down(log, key, accepted) ==
    [log |-> Emit(log, <<key_event(key, 1)>>, accepted),
     res |-> IF accepted THEN Ok(<<>>) ELSE Err("ButtonEventEmitError")]

key_up(log, key, accepted) ==
    [log |-> Emit(log, <<key_event(key, 0)>>, accepted),
     res |-> IF accepted THEN Ok(<<>>) ELSE Err("ButtonEventEmitError")]

\* click: key_down(key)?; sleep(50 ms); key_up(key)?
click(log, key, down_accepted, up_accepted) ==
    LET down == key_down(log, key, down_accepted)
    IN  IF ~down.res.ok THEN down ELSE key_up(down.log, key, up_accepted)

left_click(log, down_accepted, up_accepted) ==
    click(log, "BTN_LEFT", down_accepted, up_accepted)

right_click(log, down_accepted, up_accepted) ==
    click(log, "BTN_RIGHT", down_accepted, up_accepted)

\* A mutation of pointer_move: the two axes go out in two submissions.
pointer_move_Split(log, x, y, accepted) ==
    [log |-> Emit(Emit(log, <<move_event("REL_X", x)>>, accepted),
                  <<move_event("REL_Y", y)>>, accepted),
     res |-> IF accepted THEN Ok(<<>>) ELSE Err("AxisEventEmitError")]

pointer_move(log, x, y, accepted) ==
    [log |-> Emit(log, <<move_event("REL_X", x), move_event("REL_Y", y)>>, accepted),
     res |-> IF accepted THEN Ok(<<>>) ELSE Err("AxisEventEmitError")]

(***************************************************************************)
(* cli (lib.rs 115-181).  An option is the sequence of values given for it *)
(* on the command line: empty when the option is absent.                   *)
(***************************************************************************)
idle_time_validator(value) ==
    LET p == ParseU64(value)
    IN  IF p.ok THEN Ok(p.val) ELSE Err("must be valid positive integer")

mouse_range_validator(value) ==
    LET p == ParseI32(value)
    IN  IF ~p.ok THEN Err("must be valid positive integer")
        ELSE IF p.val >= 0 THEN Ok(p.val)
        ELSE Err("must be positive integer")

OptValue(opt, default) == IF Len(opt) = 0 THEN default ELSE opt[Len(opt)]

\* parse_args: both options validated, defaults "10" and "50".
parse_args(cmdline) ==
    LET i == idle_time_validator(OptValue(cmdline.idle_time, <<"1", "0">>))
        m == mouse_range_validator(OptValue(cmdline.mouse_range, <<"5", "0">>))
    IN  IF ~i.ok THEN Err(i.err)
        ELSE IF ~m.ok THEN Err(m.err)
        ELSE Ok([idle_time |-> i.val, mouse_range |-> m.val])

(***************************************************************************)
(* error_exit and error (lib.rs 183-190, main.rs 6-13): the line printed   *)
(* and the exit status, if the process exits.                              *)
(***************************************************************************)
error_exit(err) == [lines |-> <<<<message(err)>>>>, exit |-> <<1>>]

\* A mutation of error: the handler of a failed move ends the process.
error_Exits(err) == [lines |-> <<<<message(err)>>>>, exit |-> <<1>>]

error(err) == [lines |-> <<<<message(err)>>>>, exit |-> <<>>]

(***************************************************************************)
(* The arithmetic of the loop of start() (lib.rs 208-210).                 *)
(***************************************************************************)
\* idle_time * 60 * 1000, as a build without overflow checks computes it.
Threshold(t) == WrappingMul(WrappingMul(t, 60), 1000)

\* Whether one of the two multiplications leaves the u64 range.
ThresholdOverflows(t) == MulOverflows(t, 60) \/ MulOverflows(WrappingMul(t, 60), 1000)

\* idle > idle_time * 60 * 1000
Triggered(sample, t) == Gt(sample, Threshold(t))

\* main.rs 25: idle > 5000
MainTriggered(sample) == Gt(sample, U64(5000))

\* The values gen_range(low..high) can return; it panics on an empty range.
GenRange(low, high) == low..(high - 1)

(***************************************************************************)
(* State.                                                                  *)
(***************************************************************************)
VARIABLES
    cmdline,          \* the options given on the command line
    overflow_checks,  \* the build profile: TRUE panics on integer overflow, FALSE wraps
    pc,               \* the position of the process
    idle_time,        \* Args.idle_time (u64, minutes)
    mouse_range,      \* Args.mouse_range (i32, pixels)
    mouse,            \* the Mouse the process owns, NoMouse before its creation
    setup_os,         \* what the OS answered to the creation of the device
    idle,             \* the idle sample of the current iteration, <<>> outside one
    emitted,          \* the submissions to the OS of the current iteration (or call)
    stdout,           \* the lines printed since the current iteration (or call) began
    exit_code,        \* <<>> while the process runs, <<status>> once it has ended
    move_failed,      \* history: some pointer_move of this run has failed
    call              \* SpecMouse: the last call of the client of the Mouse

vars ==
    <<cmdline, overflow_checks, pc, idle_time, mouse_range, mouse, setup_os,
      idle, emitted, stdout, exit_code, move_failed, call>>

\* No call of the client yet (and none at all in a run of start() or main()).
NoCall == [op |-> "none", args |-> <<>>, res |-> Ok(<<>>), from |-> 0, n |-> 0]

(***************************************************************************)
(* Inputs.                                                                 *)
(***************************************************************************)
\* The largest mouse range given explicitly on the command line.
MaxRange == 2

RECURSIVE Decimal(_)
Decimal(n) ==
    IF n < 10 THEN <<DigitChars[n + 1]>>
    ELSE Decimal(n \div 10) \o <<DigitChars[(n % 10) + 1]>>

\* 0, 10, the largest threshold whose milliseconds fit a u64 (307445734561825),
\* the one after it, and a value the validator rejects.
IdleArgs ==
    {<<"0">>, <<"1", "0">>,
     <<"3", "0", "7", "4", "4", "5", "7", "3", "4", "5", "6", "1", "8", "2", "5">>,
     <<"3", "0", "7", "4", "4", "5", "7", "3", "4", "5", "6", "1", "8", "2", "6">>,
     <<"-", "1">>}

RangeArgs == {Decimal(n) : n \in 0..MaxRange} \cup {<<"-", "1">>, <<"x">>}

DefaultCommandLine == [idle_time |-> <<>>, mouse_range |-> <<>>]

CommandLines ==
    {[idle_time |-> <<i>>, mouse_range |-> <<m>>] : i \in IdleArgs, m \in RangeArgs}
        \cup {DefaultCommandLine}

\* What rs_idle::get_idle_time() may return, in milliseconds.
IdleSamples ==
    {U64(ms) : ms \in {0, 5000, 5001, 599000, 600000, 601000}}
        \cup {[i \in 1..U64Limbs |-> Base - 1]}

(***************************************************************************)
(* start() (lib.rs 192-215).                                               *)
(***************************************************************************)
Init ==
    /\ cmdline \in CommandLines
    /\ overflow_checks \in BOOLEAN
    /\ pc = "parse"
    /\ idle_time = U64Zero
    /\ mouse_range = 0
    /\ mouse = NoMouse
    /\ setup_os = <<>>
    /\ idle = <<>>
    /\ emitted = <<>>
    /\ stdout = <<>>
    /\ exit_code = <<>>
    /\ move_failed = FALSE
    /\ call = NoCall

\* lib.rs 193-196: cli::parse_args() and the two lines echoing the configuration;
\* on an invalid value the argument parser prints the message and exits (status 2).
ParseArgs ==
    /\ pc = "parse"
    /\ LET a == parse_args(cmdline)
       IN  IF a.ok
           THEN /\ idle_time' = a.val.idle_time
                /\ mouse_range' = a.val.mouse_range
                /\ stdout' = <<<<"Idle time set to", a.val.idle_time>>,
                               <<"When idle mouse will be moved by", a.val.mouse_range>>>>
                /\ pc' = "new"
                /\ exit_code' = exit_code
           ELSE /\ stdout' = <<<<a.err>>>>
                /\ pc' = "exited"
                /\ exit_code' = <<2>>
                /\ UNCHANGED <<idle_time, mouse_range>>
    /\ UNCHANGED <<cmdline, overflow_checks, mouse, setup_os, idle, emitted,
                   move_failed, call>>

\* lib.rs 198-201: Mouse::new(), and error_exit on its error.
NewMouse(os) ==
    /\ pc = "new"
    /\ setup_os' = <<os>>
    /\ LET r == MouseNew(os)
       IN  IF r.ok
           THEN /\ mouse' = r.val
                /\ pc' = "sleep"
                /\ UNCHANGED <<stdout, exit_code>>
           ELSE LET h == error_exit(r.err)
                IN  /\ stdout' = stdout \o h.lines
                    /\ exit_code' = h.exit
                    /\ pc' = "exited"
                    /\ mouse' = mouse
    /\ UNCHANGED <<cmdline, overflow_checks, idle_time, mouse_range, idle, emitted,
                   move_failed, call>>

\* lib.rs 204: the top of the loop; the previous iteration's locals are gone.
Sleep ==
    /\ pc = "sleep"
    /\ pc' = "query"
    /\ idle' = <<>>
    /\ emitted' = <<>>
    /\ stdout' = <<>>
    /\ UNCHANGED <<cmdline, overflow_checks, idle_time, mouse_range, mouse, setup_os,
                   exit_code, move_failed, call>>

\* lib.rs 206: let idle = rs_idle::get_idle_time()
QueryIdle(sample) ==
    /\ pc = "query"
    /\ idle' = sample
    /\ pc' = "check"
    /\ UNCHANGED <<cmdline, overflow_checks, idle_time, mouse_range, mouse, setup_os,
                   emitted, stdout, exit_code, move_failed, call>>

\* lib.rs 208: if idle > idle_time * 60 * 1000, the product computed without a panic.
CheckIdle ==
    /\ pc = "check"
    /\ ~(overflow_checks /\ ThresholdOverflows(idle_time))
    /\ pc' = IF Triggered(idle, idle_time) THEN "acting" ELSE "sleep"
    /\ UNCHANGED <<cmdline, overflow_checks, idle_time, mouse_range, mouse, setup_os,
                   idle, emitted, stdout, exit_code, move_failed, call>>

\* lib.rs 208: the product overflows in a build with overflow checks: the thread panics.
CheckIdleOverflow ==
    /\ pc = "check"
    /\ overflow_checks /\ ThresholdOverflows(idle_time)
    /\ pc' = "panicked"
    /\ exit_code' = <<101>>
    /\ UNCHANGED <<cmdline, overflow_checks, idle_time, mouse_range, mouse, setup_os,
                   idle, emitted, stdout, move_failed, call>>

\* lib.rs 209-212: the two draws, the line printed, the move, and error on its failure.
Act ==
    /\ pc = "acting"
    /\ \E x, y \in GenRange(-mouse_range, mouse_range), accepted \in BOOLEAN :
         LET m == pointer_move(emitted, x, y, accepted)
             h == IF m.res.ok THEN [lines |-> <<>>, exit |-> <<>>] ELSE error(m.res.err)
         IN  /\ emitted' = m.log
             /\ stdout' = Append(stdout, <<"Idle", idle, x, y>>) \o h.lines
             /\ exit_code' = h.exit
             /\ pc' = IF h.exit = <<>> THEN "sleep" ELSE "exited"
             /\ move_failed' = (move_failed \/ ~m.res.ok)
    /\ UNCHANGED <<cmdline, overflow_checks, idle_time, mouse_range, mouse, setup_os,
                   idle, call>>

\* lib.rs 209: gen_range on an empty range panics, before anything is printed or moved.
ActEmptyRange ==
    /\ pc = "acting"
    /\ GenRange(-mouse_range, mouse_range) = {}
    /\ pc' = "panicked"
    /\ exit_code' = <<101>>
    /\ UNCHANGED <<cmdline, overflow_checks, idle_time, mouse_range, mouse, setup_os,
                   idle, emitted, stdout, move_failed, call>>

Next ==
    \/ ParseArgs
    \/ \E os \in SetupOutcomes : NewMouse(os)
    \/ Sleep
    \/ \E sample \in IdleSamples : QueryIdle(sample)
    \/ CheckIdle
    \/ CheckIdleOverflow
    \/ Act
    \/ ActEmptyRange

Spec == Init /\ [][Next]_vars

(***************************************************************************)
(* main() (main.rs 15-32): it never reads the command line.                *)
(***************************************************************************)
main_error_exit(err) == [lines |-> <<<<message(err)>>>>, exit |-> <<1>>]

main_error(err) == [lines |-> <<<<message(err)>>>>, exit |-> <<>>]

\* The command lines main() is run with.
MainCommandLines ==
    {DefaultCommandLine, [idle_time |-> <<<<"0">>>>, mouse_range |-> <<Decimal(MaxRange)>>]}

InitMain ==
    /\ cmdline \in MainCommandLines
    /\ overflow_checks \in BOOLEAN
    /\ pc = "new"
    /\ idle_time = U64Zero
    /\ mouse_range = 0
    /\ mouse = NoMouse
    /\ setup_os = <<>>
    /\ idle = <<>>
    /\ emitted = <<>>
    /\ stdout = <<>>
    /\ exit_code = <<>>
    /\ move_failed = FALSE
    /\ call = NoCall

\* main.rs 16-19
MainNewMouse(os) ==
    /\ pc = "new"
    /\ setup_os' = <<os>>
    /\ LET r == MouseNew(os)
       IN  IF r.ok
           THEN /\ mouse' = r.val
                /\ pc' = "sleep"
                /\ UNCHANGED <<stdout, exit_code>>
           ELSE LET h == main_error_exit(r.err)
                IN  /\ stdout' = stdout \o h.lines
                    /\ exit_code' = h.exit
                    /\ pc' = "exited"
                    /\ mouse' = mouse
    /\ UNCHANGED <<cmdline, overflow_checks, idle_time, mouse_range, idle, emitted,
                   move_failed, call>>

\* main.rs 22
MainSleep ==
    /\ pc = "sleep"
    /\ pc' = "query"
    /\ idle' = <<>>
    /\ emitted' = <<>>
    /\ stdout' = <<>>
    /\ UNCHANGED <<cmdline, overflow_checks, idle_time, mouse_range, mouse, setup_os,
                   exit_code, move_failed, call>>

\* main.rs 23
MainQueryIdle(sample) ==
    /\ pc = "query"
    /\ idle' = sample
    /\ pc' = "check"
    /\ UNCHANGED <<cmdline, overflow_checks, idle_time, mouse_range, mouse, setup_os,
                   emitted, stdout, exit_code, move_failed, call>>

\* main.rs 25: if idle > 5000
MainCheckIdle ==
    /\ pc = "check"
    /\ pc' = IF MainTriggered(idle) THEN "acting" ELSE "sleep"
    /\ UNCHANGED <<cmdline, overflow_checks, idle_time, mouse_range, mouse, setup_os,
                   idle, emitted, stdout, exit_code, move_failed, call>>

\* main.rs 26-29: both draws from -50..50
MainAct ==
    /\ pc = "acting"
    /\ \E x, y \in GenRange(-50, 50), accepted \in BOOLEAN :
         LET m == pointer_move(emitted, x, y, accepted)
             h == IF m.res.ok THEN [lines |-> <<>>, exit |-> <<>>]
                  ELSE main_error(m.res.err)
         IN  /\ emitted' = m.log
             /\ stdout' = Append(stdout, <<"Idle", idle, x, y>>) \o h.lines
             /\ exit_code' = h.exit
             /\ pc' = IF h.exit = <<>> THEN "sleep" ELSE "exited"
             /\ move_failed' = (move_failed \/ ~m.res.ok)
    /\ UNCHANGED <<cmdline, overflow_checks, idle_time, mouse_range, mouse, setup_os,
                   idle, call>>

NextMain ==
    \/ \E os \in SetupOutcomes : MainNewMouse(os)
    \/ MainSleep
    \/ \E sample \in IdleSamples : MainQueryIdle(sample)
    \/ MainCheckIdle
    \/ MainAct

SpecMain == InitMain /\ [][NextMain]_vars

(***************************************************************************)
(* A client of the public interface of input::Mouse (lib.rs 39-112): it    *)
(* creates a Mouse and then makes up to MaxCalls calls of its public       *)
(* methods, in any order, with any key of the key type and any deltas up   *)
(* to MaxDelta.  Here `emitted` holds every submission since the creation, *)
(* and call.from is its length when the last call began.                   *)
(***************************************************************************)
MaxCalls == 2

MaxDelta == 1

InitMouse ==
    /\ cmdline = DefaultCommandLine
    /\ overflow_checks = FALSE
    /\ pc = "api_new"
    /\ idle_time = U64Zero
    /\ mouse_range = 0
    /\ mouse = NoMouse
    /\ setup_os = <<>>
    /\ idle = <<>>
    /\ emitted = <<>>
    /\ stdout = <<>>
    /\ exit_code = <<>>
    /\ move_failed = FALSE
    /\ call = NoCall

ApiUnchanged ==
    UNCHANGED <<cmdline, overflow_checks, idle_time, mouse_range, idle, stdout,
                exit_code, move_failed>>

\* Mouse::new() (lib.rs 40-62)
ApiNew(os) ==
    /\ pc = "api_new"
    /\ setup_os' = <<os>>
    /\ LET r == MouseNew(os)
       IN  /\ mouse' = IF r.ok THEN r.val ELSE mouse
           /\ pc' = IF r.ok THEN "api_ready" ELSE "api_failed"
           /\ call' = [NoCall EXCEPT !.op = "new",
                                     !.res = IF r.ok THEN Ok(<<>>) ELSE r]
    /\ emitted' = <<>>
    /\ ApiUnchanged

\* The call op(args) on the created Mouse: r is what the method submits and returns.
ApiCall(op, args, r) ==
    /\ emitted' = r.log
    /\ call' = [op |-> op, args |-> args, res |-> r.res, from |-> Len(emitted),
                n |-> call.n + 1]
    /\ UNCHANGED <<pc, mouse, setup_os>>
    /\ ApiUnchanged

ApiReady == pc = "api_ready" /\ call.n < MaxCalls

ApiKeyDown ==
    /\ ApiReady
    /\ \E key \in Key, accepted \in BOOLEAN :
         ApiCall("key_down", <<key>>, key_down(emitted, key, accepted))

ApiKeyUp ==
    /\ ApiReady
    /\ \E key \in Key, accepted \in BOOLEAN :
         ApiCall("key_up", <<key>>, key_up(emitted, key, accepted))

ApiClick ==
    /\ ApiReady
    /\ \E key \in Key, down_accepted, up_accepted \in BOOLEAN :
         ApiCall("click", <<key>>, click(emitted, key, down_accepted, up_accepted))

ApiLeftClick ==
    /\ ApiReady
    /\ \E down_accepted, up_accepted \in BOOLEAN :
         ApiCall("left_click", <<"BTN_LEFT">>,
                 left_click(emitted, down_accepted, up_accepted))

ApiRightClick ==
    /\ ApiReady
    /\ \E down_accepted, up_accepted \in BOOLEAN :
         ApiCall("right_click", <<"BTN_RIGHT">>,
                 right_click(emitted, down_accepted, up_accepted))

ApiPointerMove ==
    /\ ApiReady
    /\ \E x, y \in -MaxDelta..MaxDelta, accepted \in BOOLEAN :
         ApiCall("pointer_move", <<x, y>>, pointer_move(emitted, x, y, accepted))

NextMouse ==
    \/ \E os \in SetupOutcomes : ApiNew(os)
    \/ ApiKeyDown
    \/ ApiKeyUp
    \/ ApiClick
    \/ ApiLeftClick
    \/ ApiRightClick
    \/ ApiPointerMove

SpecMouse == InitMouse /\ [][NextMouse]_vars

(***************************************************************************)
(* Vocabulary of the properties.                                           *)
(***************************************************************************)
\* sample > t * 60000 in exact arithmetic: both sides widened by two limbs,
\* so that the product of any u64 by 60000 fits.
Wide(x) == [i \in 1..(Len(x) + 2) |-> IF i <= Len(x) THEN x[i] ELSE 0]

ExceedsMinutes(sample, t) == Gt(Wide(sample), WrappingMul(WrappingMul(Wide(t), 60), 1000))

\* The process is in the loop of start() or main().
InLoop == pc \in {"sleep", "query", "check", "acting"}

\* An iteration has just ended: by reaching the end of the loop body, or by a panic.
IterationEnded == idle # <<>> /\ pc \in {"sleep", "panicked"}

\* The comparison of lib.rs 208 was evaluated in this iteration and was true.
TriggeringIteration ==
    /\ idle # <<>>
    /\ ~(overflow_checks /\ ThresholdOverflows(idle_time))
    /\ Triggered(idle, idle_time)

\* The submission of one relative move (dx, dy).
IsMove(sub, dx, dy) ==
    sub.events = <<[type |-> "RELATIVE", code |-> 0, value |-> dx],
                   [type |-> "RELATIVE", code |-> 1, value |-> dy]>>

\* Every submission so far is one relative move with both deltas in [-r, r).
MovesWithin(r) ==
    \A i \in 1..Len(emitted) :
        LET ev == emitted[i].events
        IN  /\ Len(ev) = 2
            /\ IsMove(emitted[i], ev[1].value, ev[2].value)
            /\ -r <= ev[1].value /\ ev[1].value < r
            /\ -r <= ev[2].value /\ ev[2].value < r

(***************************************************************************)
(* Properties of start(), checked under Spec.                              *)
(***************************************************************************)
\* C1: an iteration of start() issues a pointer move if and only if its idle
\* sample is strictly greater than idle_time * 60000 ms, for every idle_time
\* the validator accepts: the move is decided (Acting is entered) only for such
\* a sample, and an iteration that has ended has issued one move exactly when
\* its sample was such.
CE_C1 ==
    /\ pc = "acting" => ExceedsMinutes(idle, idle_time)
    /\ IterationEnded => (Len(emitted) = 1 <=> ExceedsMinutes(idle, idle_time))

\* C2: every relative move start() passes to pointer_move has dx and dy in
\* [-mouse_range, mouse_range), and a triggering iteration issues exactly one move.
CE_C2 ==
    /\ InLoop \/ pc = "panicked" => MovesWithin(mouse_range)
    /\ IterationEnded /\ TriggeringIteration => Len(emitted) = 1

\* C3: with mouse_range = 0, an iteration whose idle sample exceeds the
\* threshold emits exactly the move (0, 0), and the loop goes on.
CE_C3 ==
    (mouse_range = 0 /\ IterationEnded /\ ExceedsMinutes(idle, idle_time)) =>
        /\ pc = "sleep"
        /\ Len(emitted) = 1
        /\ IsMove(emitted[1], 0, 0)

\* C4: a failed pointer_move is reported and is not fatal: the step in which
\* the move fails prints the axis-emission message and returns to the top of
\* the loop; after a failure the process is still in the loop; and a later
\* idle check whose sample exceeds the threshold enters Acting again, which
\* makes a new move attempt.
Thm_C4 ==
    /\ [][(pc = "acting" /\ Len(emitted') = 1 /\ ~emitted'[1].accepted) =>
            /\ pc' = "sleep"
            /\ exit_code' = <<>>
            /\ stdout'[Len(stdout')] = <<"Cannot move virtual mouse">>]_vars
    /\ [](move_failed => InLoop /\ exit_code = <<>>)
    /\ [][(move_failed /\ pc = "check" /\ ExceedsMinutes(idle, idle_time)) =>
            pc' = "acting"]_vars
    /\ [][(move_failed /\ pc = "acting" /\ pc' # "acting") =>
            (emitted = <<>> /\ Len(emitted') = 1)]_vars

\* A move has failed in an earlier iteration and this iteration's move was accepted.
Witness_C4 ==
    /\ move_failed
    /\ pc = "sleep"
    /\ Len(emitted) = 1
    /\ emitted[1].accepted

\* The first of the four setup steps the OS refused, "none" when it refused none.
FirstFailure(os) ==
    IF ~os.builder THEN "builder"
    ELSE IF ~os.keys THEN "keys"
    ELSE IF ~os.axes THEN "axes"
    ELSE IF ~os.build THEN "build"
    ELSE "none"

\* The message of the error kind that belongs to a setup step.
SetupMessage(step) ==
    CASE step = "builder" -> "Cannot initialize device builder"
      [] step = "keys"    -> "Cannot assign keys to virtual mouse"
      [] step = "axes"    -> "Cannot assign axes to virtual mouse"
      [] step = "build"   -> "Cannot create virtual mouse"

\* C5: when the creation of the device fails, start() has printed the message
\* of the first failing step's error kind (the four are distinct) and has
\* exited with status 1, with no device, no idle sample and no submission.
Thm_C5 ==
    /\ \A s1, s2 \in {"builder", "keys", "axes", "build"} :
          s1 # s2 => SetupMessage(s1) # SetupMessage(s2)
    /\ (setup_os # <<>> /\ FirstFailure(setup_os[1]) # "none") =>
          /\ pc = "exited"
          /\ exit_code = <<1>>
          /\ stdout[Len(stdout)] = <<SetupMessage(FirstFailure(setup_os[1]))>>
          /\ mouse = NoMouse
          /\ idle = <<>>
          /\ emitted = <<>>

\* The builder and the keys were accepted, the axes refused; the process has exited.
Witness_C5 ==
    /\ setup_os # <<>>
    /\ FirstFailure(setup_os[1]) = "axes"
    /\ pc = "exited"

\* C10: once the device exists the process is always in the loop: it has no
\* terminal state and never stops on its own.
CE_C10 == mouse # NoMouse => (InLoop /\ exit_code = <<>>)

(***************************************************************************)
(* Properties of main(), checked under SpecMain.                           *)
(***************************************************************************)
\* What start() does with an idle sample under a command line: whether it
\* moves the pointer in that iteration.
StartMoves(cmd, sample) ==
    LET a == parse_args(cmd)
    IN  /\ a.ok
        /\ ~(overflow_checks /\ ThresholdOverflows(a.val.idle_time))
        /\ Triggered(sample, a.val.idle_time)
        /\ GenRange(-a.val.mouse_range, a.val.mouse_range) # {}

\* C9: main() moves the pointer in an iteration exactly when start() with the
\* same command line would, with deltas from the configured range.
CE_C9 ==
    parse_args(cmdline).ok =>
        /\ pc = "acting" => StartMoves(cmdline, idle)
        /\ IterationEnded => (Len(emitted) = 1 <=> StartMoves(cmdline, idle))
        /\ InLoop => MovesWithin(parse_args(cmdline).val.mouse_range)

(***************************************************************************)
(* Properties of input::Mouse, checked under SpecMouse.                    *)
(***************************************************************************)
\* The submissions of the last call.
CallEmitted == SubSeq(emitted, call.from + 1, Len(emitted))

\* The values of the key events the OS accepted from the last call, in order.
CallDelivered ==
    LET acc == SelectSeq(CallEmitted, LAMBDA sub : sub.accepted)
    IN  [i \in 1..Len(acc) |-> acc[i].events[1].value]

\* C6: when a click call has returned, with Ok or with an error, the button
\* events it delivered are a down followed by its up, or none: the button is
\* not left down.
CE_C6 ==
    call.op \in {"click", "left_click", "right_click"} =>
        CallDelivered \in {<<>>, <<1, 0>>}

\* C7: the created Mouse declares exactly BTN_LEFT and BTN_RIGHT, REL_X and
\* REL_Y, and no button event for an undeclared key is delivered to the OS:
\* a call for such a key is rejected with an error.
CE_C7 ==
    pc = "api_ready" =>
        /\ mouse.keys = {"BTN_LEFT", "BTN_RIGHT"}
        /\ mouse.axes = {"REL_X", "REL_Y"}
        /\ \A i \in 1..Len(emitted) :
              (emitted[i].accepted /\ emitted[i].events[1].type = "KEY") =>
                  \E key \in mouse.keys : emitted[i].events[1].code = KeyCode(key)

\* C8: a pointer_move(dx, dy) call makes exactly one submission, holding the
\* REL_X event with dx and then the REL_Y event with dy, and returns Ok when
\* the OS accepts it and AxisEventEmitError when it rejects it.
Thm_C8 ==
    call.op = "pointer_move" =>
        /\ Len(CallEmitted) = 1
        /\ IsMove(CallEmitted[1], call.args[1], call.args[2])
        /\ call.res.ok = CallEmitted[1].accepted
        /\ ~call.res.ok => call.res.err = "AxisEventEmitError"

\* A pointer_move that the OS rejected, made after an earlier call.
Witness_C8 ==
    /\ call.op = "pointer_move"
    /\ call.from > 0
    /\ ~call.res.ok
    /\ call.args = <<-1, 1>>

=============================================================================
